---- MODULE Spec2Model ----
(***************************************************************************)
(* A model of the build store of the ci server (package db): the bolt      *)
(* buckets it keeps (build, sha, ref, pending), the error-absorbing        *)
(* transaction wrapper, CreateBuild and the query operations.               *)
(*                                                                         *)
(* Keys and values are byte strings, written as sequences of 0..255, so    *)
(* that key order is bolt's bytes.Compare order and itob/btoi are the real *)
(* conversions.  A bucket is [seq, kv]: its sequence counter and a function*)
(* from keys to entries; an entry is a leaf value or a nested bucket.      *)
(***************************************************************************)
EXTENDS Integers, Sequences, FiniteSets, TLC

\* ------------------------------------------------------------------ bounds
MaxBuilds == 3      \* successful CreateBuild calls in one behaviour
MaxID     == 7      \* build ids queried: 0 .. MaxID
MaxStart  == 2      \* RefBuilds start arguments: -1 .. MaxStart
MaxEnd    == 2      \* RefBuilds end arguments:   -2 .. MaxEnd
NumWorkers == 2     \* workers of the scheduler
MaxQueued  == 2     \* builds created while the workers run
MaxLines   == 3     \* output lines appended in one behaviour
MaxOps     == 4     \* wrapper operations made in one behaviour

\* --------------------------------------------------------- bucket names
buildBucket   == <<98, 117, 105, 108, 100>>              \* "build"
pendingBucket == <<112, 101, 110, 100, 105, 110, 103>>   \* "pending"
shaBucket     == <<115, 104, 97>>                        \* "sha"
refBucket     == <<114, 101, 102>>                       \* "ref"
outputBucket  == <<111, 117, 116, 112, 117, 116>>        \* "output"

\* ------------------------------------------------------------ the inputs
Push        == 0
PullRequest == 1
BuildTypes  == {Push, PullRequest}

BuildQueued  == 0
BuildRunning == 1
BuildSuccess == 2
BuildError   == 3
BuildFailed  == 4
PendingStatus  == {BuildQueued, BuildRunning}
TerminalStatus == {BuildSuccess, BuildError, BuildFailed}

Empty  == << >>
Main   == <<109, 97, 105, 110>>                  \* "main"
Dev    == <<100, 101, 118>>                      \* "dev"
Abc123 == <<97, 98, 99, 49, 50, 51>>             \* "abc123"
Def456 == <<100, 101, 102, 52, 53, 54>>          \* "def456"
RawKey3 == <<0, 0, 0, 0, 0, 0, 0, 3>>            \* the 8 bytes "\x00..\x03"
HostURL == <<104, 116, 116, 112, 115, 58, 47, 47, 104, 111, 115, 116, 47, 114>>

RefNames == {Main, Dev}
SHAs     == {Abc123, Def456, Empty, RawKey3}

\* The argument tuples CreateBuild is called with: <<type, cloneURL, ref, sha>>.
Requests ==
    { <<Push, HostURL, Main, Abc123>>,
      <<Push, HostURL, Main, Def456>>,
      <<PullRequest, Empty, Main, Abc123>>,
      <<Push, HostURL, Main, RawKey3>>,
      <<Push, HostURL, Empty, Abc123>>,
      <<Push, HostURL, Main, Empty>> }

Nil == "nil"

\* ------------------------------------------------------------ byte order
\* bytes.Compare(a, b) < 0, the order of a bolt cursor.
RECURSIVE BytesLess(_, _)
BytesLess(a, b) ==
    IF b = << >> THEN FALSE
    ELSE IF a = << >> THEN TRUE
    ELSE IF Head(a) # Head(b) THEN Head(a) < Head(b)
    ELSE BytesLess(Tail(a), Tail(b))

\* The keys of a set in cursor order, first to last.
RECURSIVE SortedKeys(_)
SortedKeys(S) ==
    IF S = {} THEN << >>
    ELSE LET k == CHOOSE x \in S : \A y \in S \ {x} : BytesLess(x, y)
         IN  <<k>> \o SortedKeys(S \ {k})

Reverse(s) == [i \in 1..Len(s) |-> s[Len(s) + 1 - i]]

\* ------------------------------------------------------------ itob, btoi
\* 8-byte big endian.  The values of the model are below 2^31, so the four
\* high bytes are 0 and the four low bytes are computed.
Pow256(n) == CASE n = 0 -> 1 [] n = 1 -> 256 [] n = 2 -> 65536 [] n = 3 -> 16777216

itob(v) == [i \in 1..8 |-> IF i <= 4 THEN 0 ELSE (v \div Pow256(8 - i)) % 256]

btoi(b) == b[5] * Pow256(3) + b[6] * Pow256(2) + b[7] * Pow256(1) + b[8]

\* ------------------------------------------------------ the bolt buckets
EmptyBucket == [seq |-> 0, kv |-> << >>]
Leaf(v)     == [isBucket |-> FALSE, val |-> v, sub |-> EmptyBucket]
Nested(b)   == [isBucket |-> TRUE, val |-> << >>, sub |-> b]

\* The bucket at a path of names below the root bucket.
RECURSIVE GetBucket(_, _)
GetBucket(root, path) ==
    IF path = << >> THEN root
    ELSE GetBucket(root.kv[Head(path)].sub, Tail(path))

RECURSIVE SetBucket(_, _, _)
SetBucket(root, path, nb) ==
    IF path = << >> THEN nb
    ELSE [root EXCEPT !.kv[Head(path)] =
             Nested(SetBucket(root.kv[Head(path)].sub, Tail(path), nb))]

\* bolt Bucket.Bucket: nil unless the key is there and is a bucket.
HasBucket(b, n) == n \in DOMAIN b.kv /\ b.kv[n].isBucket

\* bolt Bucket.Get: nil when the key is absent or names a nested bucket.
HasValue(b, k) == k \in DOMAIN b.kv /\ ~b.kv[k].isBucket

\* bolt Bucket.CreateBucketIfNotExists on the bucket at path.
BoltCreateBucketIfNotExists(root, path, n) ==
    LET b == GetBucket(root, path) IN
    IF n = << >> THEN [root |-> root, err |-> "ErrBucketNameRequired"]
    ELSE IF n \in DOMAIN b.kv
    THEN IF b.kv[n].isBucket
         THEN [root |-> root, err |-> Nil]
         ELSE [root |-> root, err |-> "ErrIncompatibleValue"]
    ELSE [root |-> SetBucket(root, path,
                     [b EXCEPT !.kv = (n :> Nested(EmptyBucket)) @@ b.kv]),
          err |-> Nil]

\* bolt Bucket.Put.
BoltPut(root, path, k, v) ==
    LET b == GetBucket(root, path) IN
    IF k = << >> THEN [root |-> root, err |-> "ErrKeyRequired"]
    ELSE IF k \in DOMAIN b.kv /\ b.kv[k].isBucket
    THEN [root |-> root, err |-> "ErrIncompatibleValue"]
    ELSE [root |-> SetBucket(root, path,
                     [b EXCEPT !.kv = (k :> Leaf(v)) @@ b.kv]),
          err |-> Nil]

\* The counter returned but not stored.
BoltNextSequenceNotStored(root, path) ==
    [root |-> root, n |-> GetBucket(root, path).seq + 1, err |-> Nil]

\* The counter advanced by two.
BoltNextSequenceTwice(root, path) ==
    [root |-> SetBucket(root, path,
                 [GetBucket(root, path) EXCEPT !.seq = GetBucket(root, path).seq + 2]),
     n |-> GetBucket(root, path).seq + 2, err |-> Nil]

\* bolt Bucket.NextSequence: increments the bucket's counter and returns it.
BoltNextSequence(root, path) ==
    LET b == GetBucket(root, path) IN
    [root |-> SetBucket(root, path, [b EXCEPT !.seq = b.seq + 1]),
     n |-> b.seq + 1, err |-> Nil]

\* bolt Bucket.Delete.
BoltDelete(root, path, k) ==
    LET b == GetBucket(root, path) IN
    IF k \in DOMAIN b.kv /\ b.kv[k].isBucket
    THEN [root |-> root, err |-> "ErrIncompatibleValue"]
    ELSE [root |-> SetBucket(root, path,
                     [b EXCEPT !.kv = [x \in (DOMAIN b.kv) \ {k} |-> b.kv[x]]]),
          err |-> Nil]

\* ------------------------------------------- the transaction wrapper (tx)
\* tx is [root, err].  A *bucket is NilHandle (the nil pointer), Unbound (a
\* bucket whose b.b is nil: what CreateBucketIfNotExists returns once the
\* transaction has failed) or Handle(path), the bolt bucket at path.  A method
\* called on the nil pointer dereferences it: the goroutine panics, which
\* leaves the function at once; Panic in tx.err stands for that.
NewTx(root)  == [root |-> root, err |-> Nil]
NilHandle    == [nil |-> TRUE, path |-> << >>]
Unbound      == [nil |-> FALSE, path |-> << >>]
Handle(path) == [nil |-> FALSE, path |-> path]
Panic        == "panic: nil pointer dereference"
panicked(t)  == [t EXCEPT !.err = Panic]

tx_CreateBucketIfNotExists(t, n) ==
    IF t.err # Nil THEN [t |-> t, b |-> Unbound]
    ELSE LET r == BoltCreateBucketIfNotExists(t.root, << >>, n) IN
         IF r.err # Nil
         THEN [t |-> [t EXCEPT !.err = r.err], b |-> Unbound]
         ELSE [t |-> [t EXCEPT !.root = r.root], b |-> Handle(<<n>>)]

bucket_CreateBucketIfNotExists(t, b, n) ==
    IF b.nil THEN [t |-> panicked(t), b |-> NilHandle]
    ELSE IF t.err # Nil THEN [t |-> t, b |-> Unbound]
    ELSE LET r == BoltCreateBucketIfNotExists(t.root, b.path, n) IN
         IF r.err # Nil
         THEN [t |-> [t EXCEPT !.err = r.err], b |-> b]
         ELSE [t |-> [t EXCEPT !.root = r.root], b |-> Handle(b.path \o <<n>>)]

tx_Bucket(t, n) ==
    IF t.err # Nil THEN NilHandle
    ELSE IF ~HasBucket(t.root, n) THEN NilHandle
    ELSE Handle(<<n>>)

bucket_Bucket(t, b, n) ==
    IF b.nil THEN [t |-> panicked(t), b |-> NilHandle]
    ELSE IF t.err # Nil THEN [t |-> t, b |-> NilHandle]
    ELSE IF ~HasBucket(GetBucket(t.root, b.path), n) THEN [t |-> t, b |-> NilHandle]
    ELSE [t |-> t, b |-> Handle(b.path \o <<n>>)]

bucket_NextSequence(t, b) ==
    IF b.nil THEN [t |-> panicked(t), n |-> 0]
    ELSE IF t.err # Nil THEN [t |-> t, n |-> 0]
    ELSE LET r == BoltNextSequence(t.root, b.path) IN
         IF r.err # Nil
         THEN [t |-> [t EXCEPT !.err = r.err], n |-> 0]
         ELSE [t |-> [t EXCEPT !.root = r.root], n |-> r.n]

bucket_Put(t, b, k, v) ==
    IF b.nil THEN panicked(t)
    ELSE IF t.err # Nil THEN t
    ELSE BoltPut(t.root, b.path, k, v)

\* The delete left out.
bucket_DeleteSkipped(t, b, k) == t

bucket_Delete(t, b, k) ==
    IF b.nil THEN panicked(t)
    ELSE IF t.err # Nil THEN t
    ELSE BoltDelete(t.root, b.path, k)

\* The function's own error returned when it has one.
dispatchOwnFirst(t, err) == IF err # Nil THEN err ELSE t.err

\* dispatch: the remembered error wins over the function's own.
dispatch(t, err) == IF t.err # Nil THEN t.err ELSE err

\* The writes of a failed function committed all the same.
updateCommitsAnyway(root, t, err) == [root |-> t.root, err |-> dispatch(t, err)]

\* update: bolt commits when the function returns nil and rolls back otherwise.
update(root, t, err) ==
    [root |-> IF dispatch(t, err) = Nil THEN t.root ELSE root,
     err |-> dispatch(t, err)]

\* view: a read-only transaction; nothing is committed.
view(root, t, err) == [root |-> root, err |-> dispatch(t, err)]

\* What bolt answers to a write in a read-only transaction.
ErrTxNotWritable == "ErrTxNotWritable"

\* ------------------------------------------------------- the Build record
\* Build{ID, T, CloneURL, Ref, CommitSHA, Status}; the zero value of every
\* field is what Go gives a field the literal does not set.
ZeroBuild ==
    [ID |-> 0, T |-> 0, CloneURL |-> << >>, Ref |-> << >>, CommitSHA |-> << >>,
     Status |-> BuildQueued]

NumFields == 6
FieldVal(b, f) ==
    CASE f = 0 -> b.ID [] f = 1 -> b.T [] f = 2 -> b.CloneURL
      [] f = 3 -> b.Ref [] f = 4 -> b.CommitSHA [] f = 5 -> b.Status
SetField(b, f, v) ==
    CASE f = 0 -> [b EXCEPT !.ID = v] [] f = 1 -> [b EXCEPT !.T = v]
      [] f = 2 -> [b EXCEPT !.CloneURL = v] [] f = 3 -> [b EXCEPT !.Ref = v]
      [] f = 4 -> [b EXCEPT !.CommitSHA = v] [] f = 5 -> [b EXCEPT !.Status = v]
IsString(f) == f \in {2, 3, 4}
IsSigned(f) == f \in {1, 5}

\* ---------------------------------------------------------------- gob
\* The gob stream of one value: a byte count, then the struct as
\* (field delta, value) pairs ending with a 0 delta.  Fields holding their
\* zero value are not sent.  Unsigned integers below 128 are one byte, larger
\* ones a negated byte count followed by the bytes; signed ones are shifted
\* left by one; strings are a length and the bytes.  The type descriptor
\* message that precedes the value in a real stream is left out.
EncUint(n) ==
    IF n < 128 THEN <<n>>
    ELSE IF n < 256 THEN <<255, n>>
    ELSE <<254, (n \div 256) % 256, n % 256>>

RECURSIVE BigEndian(_)
BigEndian(s) == IF s = << >> THEN 0 ELSE BigEndian(SubSeq(s, 1, Len(s) - 1)) * 256 + s[Len(s)]

DecUint(s) ==
    IF s = << >> THEN [ok |-> FALSE, val |-> 0, rest |-> << >>]
    ELSE IF s[1] < 128 THEN [ok |-> TRUE, val |-> s[1], rest |-> Tail(s)]
    ELSE IF 256 - s[1] > 3 \/ Len(s) < 1 + (256 - s[1])
    THEN [ok |-> FALSE, val |-> 0, rest |-> << >>]
    ELSE [ok |-> TRUE, val |-> BigEndian(SubSeq(s, 2, 1 + (256 - s[1]))),
          rest |-> SubSeq(s, 2 + (256 - s[1]), Len(s))]

EncField(b, f) ==
    IF IsString(f) THEN EncUint(Len(FieldVal(b, f))) \o FieldVal(b, f)
    ELSE IF IsSigned(f) THEN EncUint(2 * FieldVal(b, f))
    ELSE EncUint(FieldVal(b, f))

IsZeroField(b, f) == FieldVal(b, f) = FieldVal(ZeroBuild, f)

\* Every field sent with its number plus one, not with the distance from the
\* last field sent.
RECURSIVE GobStructAbsolute(_, _, _)
GobStructAbsolute(b, f, prev) ==
    IF f >= NumFields THEN <<0>>
    ELSE IF IsZeroField(b, f) THEN GobStructAbsolute(b, f + 1, prev)
    ELSE EncUint(f + 1) \o EncField(b, f) \o GobStructAbsolute(b, f + 1, f)

\* The last field of the struct, Status, not sent.
RECURSIVE GobStructNoStatus(_, _, _)
GobStructNoStatus(b, f, prev) ==
    IF f >= NumFields - 1 THEN <<0>>
    ELSE IF IsZeroField(b, f) THEN GobStructNoStatus(b, f + 1, prev)
    ELSE EncUint(f - prev) \o EncField(b, f) \o GobStructNoStatus(b, f + 1, f)

RECURSIVE GobStruct(_, _, _)
GobStruct(b, f, prev) ==
    IF f >= NumFields THEN <<0>>
    ELSE IF IsZeroField(b, f) THEN GobStruct(b, f + 1, prev)
    ELSE EncUint(f - prev) \o EncField(b, f) \o GobStruct(b, f + 1, f)

GobMessage(p) == EncUint(Len(p)) \o p

GobEncode(b) == GobMessage(GobStruct(b, 0, -1))

\* The fields of a struct: s is what is left of the message, prev the last
\* field number seen, b the Build filled so far.
RECURSIVE GobFields(_, _, _)
RECURSIVE GobField(_, _, _)
GobFields(s, prev, b) ==
    IF ~DecUint(s).ok THEN [err |-> "EOF", build |-> ZeroBuild]
    ELSE IF DecUint(s).val = 0 THEN [err |-> Nil, build |-> b]
    ELSE GobField(DecUint(DecUint(s).rest), prev + DecUint(s).val, b)

\* One field: v is its decoded leading integer and what follows it.
GobField(v, f, b) ==
    IF f >= NumFields \/ ~v.ok THEN [err |-> "gob: bad data", build |-> ZeroBuild]
    ELSE IF IsString(f)
    THEN IF Len(v.rest) < v.val
         THEN [err |-> "gob: bad data", build |-> ZeroBuild]
         ELSE GobFields(SubSeq(v.rest, v.val + 1, Len(v.rest)), f,
                        SetField(b, f, SubSeq(v.rest, 1, v.val)))
    ELSE IF IsSigned(f)
    THEN GobFields(v.rest, f, SetField(b, f, v.val \div 2))
    ELSE GobFields(v.rest, f, SetField(b, f, v.val))

\* The message whose byte count c was read.
GobValue(c) ==
    IF ~c.ok THEN [err |-> "EOF", build |-> ZeroBuild]
    ELSE IF Len(c.rest) < c.val THEN [err |-> "unexpected EOF", build |-> ZeroBuild]
    ELSE GobFields(SubSeq(c.rest, 1, c.val), -1, ZeroBuild)

\* Decode into a zero Build.  A value whose first byte is 0 (an 8-byte id) is
\* an empty message: the decoder then finds no type id and returns io.EOF.
GobDecode(v) == GobValue(DecUint(v))

\* ------------------------------------------------------------ CreateBuild
\* b.Put(itob(n), v) with n the value NextSequence returned in r.
putAtSequence(r, b, v) == bucket_Put(r.t, b, itob(r.n), v)

\* Lines 200-207: the record, keyed by the build id.
putRecord(t, b, build) == bucket_Put(t, b, itob(build.ID), GobEncode(build))

\* Lines 208-211.  b is still the build bucket: the results of
\* tx.CreateBucketIfNotExists(shaBucket) and of
\* b.CreateBucketIfNotExists(commitSHA) are dropped, so commitID comes from
\* the build bucket's sequence and the cross-reference goes into the build
\* bucket.
putCommit(t, b, build) ==
    LET r4 == tx_CreateBucketIfNotExists(t, shaBucket)
        r5 == bucket_CreateBucketIfNotExists(r4.t, b, build.CommitSHA)
    IN  putAtSequence(bucket_NextSequence(r5.t, b), b, itob(build.ID))

\* Lines 213-216, on the ref bucket r8 created at line 212.
putRefIn(r10, build) ==
    putAtSequence(bucket_NextSequence(r10.t, r10.b), r10.b, itob(build.ID))
putRefType(r9, build) ==
    putRefIn(bucket_CreateBucketIfNotExists(r9.t, r9.b, build.Ref), build)
putRef(r8, build) ==
    putRefType(bucket_CreateBucketIfNotExists(r8.t, r8.b, itob(build.T)), build)

\* The pending marker forgotten.
putPendingForgotten(r13, build) == r13.t

\* Lines 217-218, on the pending bucket r13.
putPending(r13, build) == bucket_Put(r13.t, r13.b, itob(build.ID), << >>)

\* Lines 200-219, once the build id is known.
createWithID(t, b, build) ==
    putPending(
        tx_CreateBucketIfNotExists(
            putRef(tx_CreateBucketIfNotExists(
                       putCommit(putRecord(t, b, build), b, build), refBucket),
                   build),
            pendingBucket),
        build)

\* Lines 195-219: r2 is what b.NextSequence() gave for the build id.
createFrom(r2, b, build0) ==
    IF r2.t.err # Nil
    THEN [t |-> r2.t, err |-> r2.t.err, build |-> build0]
    ELSE [t |-> createWithID(r2.t, b, [build0 EXCEPT !.ID = r2.n]), err |-> Nil,
          build |-> [build0 EXCEPT !.ID = r2.n]]

createIn(r1, build0) == createFrom(bucket_NextSequence(r1.t, r1.b), r1.b, build0)

\* The function CreateBuild runs under update.
CreateBuildTxn(t0, t, cloneURL, ref, commitSHA) ==
    createIn(tx_CreateBucketIfNotExists(t0, buildBucket),
             [ZeroBuild EXCEPT !.T = t, !.CloneURL = cloneURL, !.Ref = ref,
                               !.CommitSHA = commitSHA])

\* What CreateBuild returns, f being what its function left and u the update.
createReturn(f, u) ==
    [db |-> u.root, err |-> u.err,
     build |-> IF u.err # Nil THEN ZeroBuild ELSE f.build]

createCommit(d, f) == createReturn(f, update(d, f.t, f.err))

\* CreateBuild on the store d: the new store, the Build returned and the error.
CreateBuildResult(d, t, cloneURL, ref, commitSHA) ==
    createCommit(d, CreateBuildTxn(NewTx(d), t, cloneURL, ref, commitSHA))

\* ---------------------------------------------------------------- queries
decoded(g) ==
    IF g.err # Nil THEN [err |-> g.err, build |-> ZeroBuild]
    ELSE [err |-> Nil, build |-> g.build]

\* Build(id) on the store d.
Build(d, id) ==
    IF ~HasBucket(d, buildBucket)
    THEN [err |-> "buildBucket does not exist", build |-> ZeroBuild]
    ELSE IF ~HasValue(GetBucket(d, <<buildBucket>>), itob(id))
    THEN [err |-> "id not exist", build |-> ZeroBuild]
    ELSE decoded(GobDecode(GetBucket(d, <<buildBucket>>).kv[itob(id)].val))

\* idsToBuilds: the builds of ids in order, or the first error and no builds.
RECURSIVE idsLoop(_, _, _)
RECURSIVE idsStep(_, _, _, _)
idsLoop(d, ids, bs) ==
    IF ids = << >> THEN [err |-> Nil, builds |-> bs]
    ELSE idsStep(Build(d, Head(ids)), d, ids, bs)

idsStep(r, d, ids, bs) ==
    IF r.err # Nil THEN [err |-> r.err, builds |-> << >>]
    ELSE idsLoop(d, Tail(ids), Append(bs, r.build))

idsToBuilds(d, ids) == idsLoop(d, ids, << >>)

\* The values btoi gives for the keys ks.
keysToIDs(ks) == [i \in 1..Len(ks) |-> btoi(ks[i])]

\* The cursor walked from the last key to the first.
pendingBuildsBackward(d) ==
    IF ~HasBucket(d, pendingBucket) THEN << >>
    ELSE keysToIDs(Reverse(SortedKeys(DOMAIN GetBucket(d, <<pendingBucket>>).kv)))

\* pendingBuilds: the keys of the pending bucket, first to last, through btoi.
pendingBuilds(d) ==
    IF ~HasBucket(d, pendingBucket) THEN << >>
    ELSE keysToIDs(SortedKeys(DOMAIN GetBucket(d, <<pendingBucket>>).kv))

PendingBuilds(d) == idsToBuilds(d, pendingBuilds(d))

\* The check of start against end left out.
validateNoOrder(start, end) ==
    IF start < 0 THEN "invalid argument start"
    ELSE IF end < -1 THEN "invalid argument end"
    ELSE Nil

\* start == end rejected with start > end.
validateRejectsEqual(start, end) ==
    IF start < 0 THEN "invalid argument start"
    ELSE IF end < -1 THEN "invalid argument end"
    ELSE IF end >= 0 /\ start >= end THEN "invalid argument start, end"
    ELSE Nil

\* validate(start, end): the error, or Nil.
validate(start, end) ==
    IF start < 0 THEN "invalid argument start"
    ELSE IF end < -1 THEN "invalid argument end"
    ELSE IF end >= 0 /\ start > end THEN "invalid argument start, end"
    ELSE Nil

\* The loop of refBuilds over the keys ks, last key first:
\* while (end == -1 || len(ids) < diff) and a key is left.
RECURSIVE refLoop(_, _, _, _, _)
refLoop(b, ks, ids, end, diff) ==
    IF (end = -1 \/ Len(ids) < diff) /\ ks # << >>
    THEN refLoop(b, Tail(ks), Append(ids, btoi(b.kv[Head(ks)].val)), end, diff)
    ELSE ids

refBuilds(d, t, ref, start, end) ==
    IF ~HasBucket(d, refBucket) THEN << >>
    ELSE IF ~HasBucket(GetBucket(d, <<refBucket>>), itob(t)) THEN << >>
    ELSE IF ~HasBucket(GetBucket(d, <<refBucket, itob(t)>>), ref) THEN << >>
    ELSE refLoop(GetBucket(d, <<refBucket, itob(t), ref>>),
                 Reverse(SortedKeys(DOMAIN GetBucket(d, <<refBucket, itob(t), ref>>).kv)),
                 << >>, end, end - start)

RefBuilds(d, t, ref, start, end) ==
    IF validate(start, end) # Nil THEN [err |-> validate(start, end), builds |-> << >>]
    ELSE IF start = end THEN [err |-> Nil, builds |-> << >>]
    ELSE idsToBuilds(d, refBuilds(d, t, ref, start, end))

\* The keys of b that are nested buckets.
bucketKeys(b) == {k \in DOMAIN b.kv : b.kv[k].isBucket}

\* Refs(t): the keys of the type's bucket that are nested buckets, in order.
Refs(d, t) ==
    IF ~HasBucket(d, refBucket) THEN << >>
    ELSE IF ~HasBucket(GetBucket(d, <<refBucket>>), itob(t)) THEN << >>
    ELSE SortedKeys(bucketKeys(GetBucket(d, <<refBucket, itob(t)>>)))

\* The values of b under the keys ks, through btoi.
valuesToIDs(b, ks) == [i \in 1..Len(ks) |-> btoi(b.kv[ks[i]].val)]

shaBuilds(d, sha) ==
    IF ~HasBucket(d, shaBucket) THEN << >>
    ELSE IF ~HasBucket(GetBucket(d, <<shaBucket>>), sha) THEN << >>
    ELSE valuesToIDs(GetBucket(d, <<shaBucket, sha>>),
                     SortedKeys(DOMAIN GetBucket(d, <<shaBucket, sha>>).kv))

SHABuilds(d, sha) == idsToBuilds(d, shaBuilds(d, sha))

\* ------------------------------------------------------ status transition
\* The forward transitions of a build: Queued -> Running -> terminal.
LegalTransition(from, to) ==
    \/ from = BuildQueued /\ to = BuildRunning
    \/ from = BuildRunning /\ to \in TerminalStatus

\* A terminal status takes the build out of the pending bucket p.
leavePending(p, id, s) ==
    IF s \in TerminalStatus THEN bucket_Delete(p.t, p.b, itob(id)) ELSE p.t

\* The record g decoded for id, rewritten with status s.
rewriteStatus(t0, b, g, id, s) ==
    IF g.err # Nil THEN [t |-> t0, err |-> g.err]
    ELSE IF ~LegalTransition(g.build.Status, s)
    THEN [t |-> t0, err |-> "invalid transition"]
    ELSE [t |-> leavePending(
                    tx_CreateBucketIfNotExists(
                        bucket_Put(t0, b, itob(id),
                                   GobEncode([g.build EXCEPT !.Status = s])),
                        pendingBucket),
                    id, s),
          err |-> Nil]

\* One update transaction: rewrite the record's Status and, on a terminal
\* status, delete the build's pending entry.
SetStatusTxn(t0, id, s) ==
    IF tx_Bucket(t0, buildBucket).nil
    THEN [t |-> t0, err |-> "buildBucket does not exist"]
    ELSE IF ~HasValue(GetBucket(t0.root, <<buildBucket>>), itob(id))
    THEN [t |-> t0, err |-> "id not exist"]
    ELSE rewriteStatus(t0, tx_Bucket(t0, buildBucket),
                       GobDecode(GetBucket(t0.root, <<buildBucket>>).kv[itob(id)].val),
                       id, s)

statusCommit(d, f) == update(d, f.t, f.err)

SetStatusResult(d, id, s) == statusCommit(d, SetStatusTxn(NewTx(d), id, s))

\* ------------------------------------------------------------- output log
\* An output line is [LineID, Channel, Content]; it is stored in the bucket
\* output/<itob(build id)> under itob(LineID) as the channel byte followed by
\* the content.
Stdout  == 0
Stderr  == 1
CIInfo  == 2
CIError == 3

lineValue(channel, content) == <<channel>> \o content
lineOf(k, v) == [LineID |-> btoi(k), Channel |-> Head(v), Content |-> Tail(v)]

\* The line stored under the sequence number r.n less one: LineIDs start at 0.
putLine(r, b, channel, content) ==
    bucket_Put(r.t, b, itob(r.n - 1), lineValue(channel, content))

appendIn(r2, channel, content) ==
    putLine(bucket_NextSequence(r2.t, r2.b), r2.b, channel, content)

\* The function AppendOutput runs under update.
AppendOutputTxn(t0, buildID, channel, content) ==
    appendIn(bucket_CreateBucketIfNotExists(
                 tx_CreateBucketIfNotExists(t0, outputBucket).t,
                 tx_CreateBucketIfNotExists(t0, outputBucket).b, itob(buildID)),
             channel, content)

AppendOutputResult(d, buildID, channel, content) ==
    update(d, AppendOutputTxn(NewTx(d), buildID, channel, content), Nil)

\* The lines of the bucket b under the keys ks, in that order.
linesOf(b, ks) == [i \in 1..Len(ks) |-> lineOf(ks[i], b.kv[ks[i]].val)]

\* The lines of ls with start <= LineID, and LineID < end unless end is -1.
inRange(ls, start, end) ==
    LET In(l) == l.LineID >= start /\ (end = -1 \/ l.LineID < end)
    IN  SelectSeq(ls, In)

\* ReadOutputs(buildID, startLine, endLine): no lines when the build has none.
ReadOutputs(d, buildID, start, end) ==
    IF ~HasBucket(d, outputBucket) THEN << >>
    ELSE IF ~HasBucket(GetBucket(d, <<outputBucket>>), itob(buildID)) THEN << >>
    ELSE inRange(linesOf(GetBucket(d, <<outputBucket, itob(buildID)>>),
                         SortedKeys(DOMAIN GetBucket(d, <<outputBucket,
                                                          itob(buildID)>>).kv)),
                 start, end)

\* ------------------------------------------------------------------ state
VARIABLES
    db,        \* the committed root bucket of the bolt file
    created,   \* the Builds successful CreateBuild calls returned, in call order
    resp,      \* the last call and what it returned
    worker,    \* each worker of the scheduler: what it does and on which build
    wins,      \* build id -> the number of times the claim of it was won
    appended,  \* build id -> the <<channel, content>> pairs appended, in order
    txn,       \* a transaction function in progress: its tx and its bucket
    poll,      \* the output poller of a build page
    scan       \* a PendingBuilds() call in progress

vars == <<db, created, resp, worker, wins, appended, txn, poll, scan>>

\* The callers that run beside the workers.
clients == <<txn, poll, scan>>

\* What the calls of the build store's API leave alone.
aside == <<worker, wins, appended, txn, poll, scan>>

\* The build page before its script runs: nothing requested, nothing shown.
NoRequest == [id |-> 0, start |-> 0, end |-> 0]
NoData    == [Outputs |-> << >>, Status |-> ""]
PageOff   == [pc |-> "off", lineId |-> 0, shown |-> << >>, req |-> NoRequest,
              data |-> NoData]

\* No PendingBuilds() call is running.
NoScan == [pc |-> "idle", ids |-> << >>, bs |-> << >>, snaps |-> {}]

\* No transaction function is running; n counts the operations made so far.
\* late counts the calls made after the transaction failed.
NoTxn(n) == [open |-> FALSE, mode |-> "none", t |-> NewTx(EmptyBucket),
             held |-> FALSE, b |-> NilHandle, n |-> n, late |-> 0]

Workers == 1..NumWorkers
Idle    == [pc |-> "idle", id |-> 0]

Init ==
    /\ db = EmptyBucket
    /\ created = << >>
    /\ resp = [op |-> "none"]
    /\ worker = [w \in Workers |-> Idle]
    /\ wins = << >>
    /\ appended = << >>
    /\ txn = NoTxn(0)
    /\ poll = PageOff
    /\ scan = NoScan

CreateBuild(t, cloneURL, ref, commitSHA) ==
    /\ Len(created) < MaxBuilds
    /\ \E r \in {CreateBuildResult(db, t, cloneURL, ref, commitSHA)} :
       /\ db' = r.db
       /\ created' = IF r.err = Nil THEN Append(created, r.build) ELSE created
       /\ resp' = [op |-> "CreateBuild", args |-> <<t, cloneURL, ref, commitSHA>>,
                   err |-> r.err, build |-> r.build]
       /\ UNCHANGED aside

BuildCall(id) ==
    /\ resp' = [op |-> "Build", args |-> <<id>>, res |-> Build(db, id)]
    /\ UNCHANGED <<db, created>>
    /\ UNCHANGED aside

PendingBuildsCall ==
    /\ resp' = [op |-> "PendingBuilds", args |-> << >>, res |-> PendingBuilds(db)]
    /\ UNCHANGED <<db, created>>
    /\ UNCHANGED aside

RefsCall(t) ==
    /\ resp' = [op |-> "Refs", args |-> <<t>>, res |-> Refs(db, t)]
    /\ UNCHANGED <<db, created>>
    /\ UNCHANGED aside

RefBuildsCall(t, ref, start, end) ==
    /\ resp' = [op |-> "RefBuilds", args |-> <<t, ref, start, end>>,
                res |-> RefBuilds(db, t, ref, start, end)]
    /\ UNCHANGED <<db, created>>
    /\ UNCHANGED aside

SHABuildsCall(sha) ==
    /\ resp' = [op |-> "SHABuilds", args |-> <<sha>>, res |-> SHABuilds(db, sha)]
    /\ UNCHANGED <<db, created>>
    /\ UNCHANGED aside

Next ==
    \/ \E q \in Requests : CreateBuild(q[1], q[2], q[3], q[4])
    \/ \E id \in 0..MaxID : BuildCall(id)
    \/ PendingBuildsCall
    \/ \E t \in BuildTypes : RefsCall(t)
    \/ \E t \in BuildTypes, ref \in RefNames :
         \E start \in -1..MaxStart, end \in -2..MaxEnd : RefBuildsCall(t, ref, start, end)
    \/ \E sha \in SHAs : SHABuildsCall(sha)

Spec == Init /\ [][Next]_vars

\* ------------------------------------------- the store with its workers
\* A worker moves a build it finds pending one step forward.
SetStatus(id, s) ==
    /\ \E cur \in {Build(db, id)} :
         cur.err = Nil /\ LegalTransition(cur.build.Status, s)
    /\ \E r \in {SetStatusResult(db, id, s)} :
       /\ db' = r.root
       /\ resp' = [op |-> "SetStatus", err |-> r.err]
    /\ UNCHANGED created
    /\ UNCHANGED aside

LifecycleRequests ==
    { <<Push, HostURL, Main, Abc123>>,
      <<PullRequest, Empty, Dev, Def456>>,
      <<Push, HostURL, Main, Empty>> }

NextLifecycle ==
    \/ \E q \in LifecycleRequests : CreateBuild(q[1], q[2], q[3], q[4])
    \/ \E id \in 0..MaxID, s \in {BuildRunning} \cup TerminalStatus : SetStatus(id, s)
    \/ PendingBuildsCall

SpecLifecycle == Init /\ [][NextLifecycle]_vars

\* ------------------------------------------------------ the worker pool
\* A build arrives while the workers run.
Enqueue(t, cloneURL, ref, commitSHA) ==
    /\ Len(created) < MaxQueued
    /\ CreateBuild(t, cloneURL, ref, commitSHA)

\* An idle worker takes a build from the work intake, which is seeded from
\* PendingBuilds(): any build listed there, Queued or Running.
Take(w) ==
    /\ worker[w].pc = "idle"
    /\ \E b \in {PendingBuilds(db).builds[i] : i \in 1..Len(PendingBuilds(db).builds)} :
         worker' = [worker EXCEPT ![w] = [pc |-> "claim", id |-> b.ID]]
    /\ UNCHANGED <<db, created, resp, wins, appended>>
    /\ UNCHANGED clients

Wins(id) == IF id \in DOMAIN wins THEN wins[id] ELSE 0

\* The claim step: one update transaction that moves the build from Queued to
\* Running.  The worker goes on to execute only when the transaction succeeded.
Claim(w) ==
    /\ worker[w].pc = "claim"
    /\ \E r \in {SetStatusResult(db, worker[w].id, BuildRunning)} :
       /\ db' = r.root
       /\ resp' = [op |-> "Claim", args |-> <<w, worker[w].id>>, err |-> r.err]
       /\ worker' = [worker EXCEPT ![w] =
                        IF r.err = Nil THEN [pc |-> "execute", id |-> worker[w].id]
                        ELSE Idle]
       /\ wins' = IF r.err = Nil
                  THEN (worker[w].id :> (Wins(worker[w].id) + 1)) @@ wins
                  ELSE wins
    /\ UNCHANGED <<created, appended>>
    /\ UNCHANGED clients

\* Completion: the process has exited and the terminal status s is written.
Complete(w, s) ==
    /\ worker[w].pc = "execute"
    /\ \E r \in {SetStatusResult(db, worker[w].id, s)} :
       /\ db' = r.root
       /\ resp' = [op |-> "Complete", args |-> <<w, worker[w].id, s>>, err |-> r.err]
    /\ worker' = [worker EXCEPT ![w] = Idle]
    /\ UNCHANGED <<created, wins, appended>>
    /\ UNCHANGED clients

WorkerRequests == { <<Push, HostURL, Main, Abc123>> }

NextWorkers ==
    \/ \E q \in WorkerRequests : Enqueue(q[1], q[2], q[3], q[4])
    \/ \E w \in Workers : Take(w)
    \/ \E w \in Workers : Claim(w)
    \/ \E w \in Workers, s \in TerminalStatus : Complete(w, s)

SpecWorkers == Init /\ [][NextWorkers]_vars

\* ------------------------------------------- any transition, asked for
AllStatus == PendingStatus \cup TerminalStatus

\* The status transition of build id to s requested, legal or not.
Transition(id, s) ==
    /\ \E r \in {SetStatusResult(db, id, s)} :
       /\ db' = r.root
       /\ resp' = [op |-> "Transition", args |-> <<id, s>>, err |-> r.err]
    /\ UNCHANGED created
    /\ UNCHANGED aside

NextTransitions ==
    \/ \E q \in WorkerRequests : Enqueue(q[1], q[2], q[3], q[4])
    \/ \E id \in 0..MaxID, s \in AllStatus : Transition(id, s)

SpecTransitions == Init /\ [][NextTransitions]_vars

\* ------------------------------------------- the output log and its writers
Appended(id) == IF id \in DOMAIN appended THEN appended[id] ELSE << >>

RECURSIVE SumLen(_, _)
SumLen(f, S) ==
    IF S = {} THEN 0
    ELSE LET x == CHOOSE y \in S : TRUE IN Len(f[x]) + SumLen(f, S \ {x})

AppendOutput(buildID, channel, content) ==
    /\ SumLen(appended, DOMAIN appended) < MaxLines
    /\ \E r \in {AppendOutputResult(db, buildID, channel, content)} :
       /\ db' = r.root
       /\ resp' = [op |-> "AppendOutput", args |-> <<buildID, channel, content>>,
                   err |-> r.err]
       /\ appended' = IF r.err = Nil
                      THEN (buildID :> Append(Appended(buildID), <<channel, content>>))
                             @@ appended
                      ELSE appended
    /\ UNCHANGED <<created, worker, wins>>
    /\ UNCHANGED clients

ReadOutputsCall(buildID, start, end) ==
    /\ resp' = [op |-> "ReadOutputs", args |-> <<buildID, start, end>>,
                res |-> ReadOutputs(db, buildID, start, end)]
    /\ UNCHANGED <<db, created, worker, wins, appended>>
    /\ UNCHANGED clients

LoggedBuilds == {1, 3}
OutputLines  == { <<Stdout, <<111>> >>, <<Stderr, <<101>> >>, <<CIInfo, <<105>> >> }

NextOutput ==
    \/ \E id \in LoggedBuilds, l \in OutputLines : AppendOutput(id, l[1], l[2])
    \/ \E id \in LoggedBuilds, start \in 0..MaxLines, end \in {-1, 2} :
         ReadOutputsCall(id, start, end)

SpecOutput == Init /\ [][NextOutput]_vars

\* ------------------------------------- a transaction function, step by step
\* The function passed to update or view makes wrapper calls one at a time on
\* the tx and on the bucket it holds (the one the last call returned).
Names  == {buildBucket, Empty}
Keys   == {buildBucket, Empty}
Value  == <<7>>
Writes == {"CreateBucketIfNotExists", "NextSequence", "Put", "Delete"}

\* A write in a read-only transaction: bolt answers ErrTxNotWritable, which the
\* wrapper remembers the way it remembers any error.
refused(t) == IF t.err # Nil THEN t ELSE [t EXCEPT !.err = ErrTxNotWritable]

\* The call op with argument a on the tx t, in a transaction opened by mode.
txCall(mode, t, op, a) ==
    CASE op = "Bucket" -> [t |-> t, b |-> tx_Bucket(t, a)]
      [] op = "CreateBucketIfNotExists" ->
            IF mode = "view" THEN [t |-> refused(t), b |-> Unbound]
            ELSE tx_CreateBucketIfNotExists(t, a)

\* The call op with argument a on the bucket b.
bucketCall(mode, t, b, op, a) ==
    IF mode = "view" /\ op \in Writes
    THEN [t |-> IF b.nil THEN panicked(t) ELSE refused(t),
          b |-> IF b.nil THEN NilHandle
                ELSE IF op = "CreateBucketIfNotExists" /\ t.err # Nil THEN Unbound
                ELSE b]
    ELSE CASE op = "Bucket" -> bucket_Bucket(t, b, a)
           [] op = "CreateBucketIfNotExists" -> bucket_CreateBucketIfNotExists(t, b, a)
           [] op = "NextSequence" -> [t |-> bucket_NextSequence(t, b).t, b |-> b]
           [] op = "Put" -> [t |-> bucket_Put(t, b, a, Value), b |-> b]
           [] op = "Delete" -> [t |-> bucket_Delete(t, b, a), b |-> b]

\* update or view calls the function.
Begin(mode) ==
    /\ ~txn.open
    /\ txn.n < MaxOps
    /\ txn' = [open |-> TRUE, mode |-> mode, t |-> NewTx(db), held |-> FALSE,
               b |-> NilHandle, n |-> txn.n, late |-> 0]
    /\ UNCHANGED <<db, created, resp, worker, wins, appended, poll, scan>>

\* The function went on to r, or panicked: bolt rolls the transaction back and
\* the panic goes up to the caller.
after(r, op, on) ==
    IF r.t.err = Panic
    THEN /\ txn' = NoTxn(txn.n + 1)
         /\ resp' = [op |-> txn.mode, last |-> <<on, op>>, err |-> Panic]
    ELSE /\ txn' = [txn EXCEPT !.t = r.t, !.b = r.b, !.held = TRUE, !.n = txn.n + 1,
                               !.late = IF txn.t.err # Nil THEN txn.late + 1 ELSE 0]
         /\ resp' = [op |-> "call", last |-> <<on, op>>, err |-> r.t.err]

\* One call on the tx.
TxCall(op, a) ==
    /\ txn.open
    /\ txn.n < MaxOps
    /\ \E r \in {txCall(txn.mode, txn.t, op, a)} : after(r, op, "tx")
    /\ UNCHANGED <<db, created, worker, wins, appended, poll, scan>>

\* One call on the bucket held.
BucketCall(op, a) ==
    /\ txn.open
    /\ txn.held
    /\ txn.n < MaxOps
    /\ \E r \in {bucketCall(txn.mode, txn.t, txn.b, op, a)} : after(r, op, "bucket")
    /\ UNCHANGED <<db, created, worker, wins, appended, poll, scan>>

\* The function returns err; update commits or rolls back, view ends.
Return(err) ==
    /\ txn.open
    /\ \E u \in {IF txn.mode = "update" THEN update(db, txn.t, err)
                  ELSE view(db, txn.t, err)} :
       /\ db' = u.root
       /\ resp' = [op |-> txn.mode, last |-> <<"return", err>>, err |-> u.err,
                   late |-> txn.late]
    /\ txn' = NoTxn(txn.n)
    /\ UNCHANGED <<created, worker, wins, appended, poll, scan>>

OwnError == "error of the function"

NextTx ==
    \/ \E mode \in {"update", "view"} : Begin(mode)
    \/ \E op \in {"Bucket", "CreateBucketIfNotExists"}, a \in Names : TxCall(op, a)
    \/ \E op \in {"Bucket", "CreateBucketIfNotExists"}, a \in Names : BucketCall(op, a)
    \/ \E op \in {"Put", "Delete"}, a \in Keys : BucketCall(op, a)
    \/ BucketCall("NextSequence", Empty)
    \/ \E err \in {Nil, OwnError} : Return(err)

SpecTx == Init /\ [][NextTx]_vars

\* ------------------------------------------------------ the output poller
\* The script of the build page of build bid.  The page state is
\* [pc, lineId, shown, req, data]: shown is the list of the output panel, req
\* the request in flight and data its answer on the way back.
bid == 1

panelClass(channel) ==
    CASE channel = 0 -> "list-group-item-success"
      [] channel = 1 -> "list-group-item-warning"
      [] channel = 2 -> "list-group-item-info"
      [] OTHER -> "list-group-item-danger"

\* lineId left as it is.
appendOutputKeepsLineId(pg, content, channel) ==
    [pg EXCEPT !.shown = Append(@, [class |-> panelClass(channel),
                                    href |-> pg.lineId, content |-> content])]

\* appendOutput: one more item in the panel, linked to #lineId; lineId += 1.
appendOutput(pg, content, channel) ==
    [pg EXCEPT !.shown = Append(@, [class |-> panelClass(channel),
                                    href |-> pg.lineId, content |-> content]),
               !.lineId = @ + 1]

\* requestLine: the request sent.
requestLine(pg) ==
    [pg EXCEPT !.pc = "sent", !.req = [id |-> bid, start |-> pg.lineId, end |-> -1],
               !.data = NoData]

\* for (var i in data.Outputs) appendOutput(...).
RECURSIVE showOutputs(_, _)
showOutputs(pg, outs) ==
    IF outs = << >> THEN pg
    ELSE showOutputs(appendOutput(pg, Head(outs).Content, Head(outs).Channel), Tail(outs))

\* The rest of the callback: another request in a second, or none.
rearm(pg, status) ==
    [pg EXCEPT !.pc = IF status = "queued" \/ status = "running" THEN "timer"
                      ELSE "stopped",
               !.req = NoRequest]

\* The callback of getJSON.
callback(pg, data) == rearm(showOutputs(pg, data.Outputs), data.Status)

\* The status as the answer spells it.
StatusName(st) ==
    CASE st = BuildQueued -> "queued" [] st = BuildRunning -> "running"
      [] st = BuildSuccess -> "success" [] st = BuildError -> "error"
      [] st = BuildFailed -> "failed"

outputsOf(ls) == [i \in 1..Len(ls) |-> [Content |-> ls[i].Content, Channel |-> ls[i].Channel]]

\* The answer to /build_output/: the lines asked for and the status, read at
\* one instant.
buildOutput(d, req) ==
    [Outputs |-> outputsOf(ReadOutputs(d, req.id, req.start, req.end)),
     Status |-> StatusName(Build(d, req.id).build.Status)]

\* The page of an existing build is loaded: the script runs requestLine().
PageLoad ==
    /\ poll.pc = "off"
    /\ Build(db, bid).err = Nil
    /\ poll' = requestLine(poll)
    /\ UNCHANGED <<db, created, resp, worker, wins, appended, txn, scan>>

\* The server answers the request in flight.
Serve ==
    /\ poll.pc = "sent"
    /\ poll' = [poll EXCEPT !.pc = "answered", !.data = buildOutput(db, poll.req)]
    /\ UNCHANGED <<db, created, resp, worker, wins, appended, txn, scan>>

\* The answer arrives and the callback runs.
Receive ==
    /\ poll.pc = "answered"
    /\ poll' = callback(poll, poll.data)
    /\ UNCHANGED <<db, created, resp, worker, wins, appended, txn, scan>>

\* The timer set by setTimeout(requestLine, 1000) fires.
Timer ==
    /\ poll.pc = "timer"
    /\ poll' = requestLine(poll)
    /\ UNCHANGED <<db, created, resp, worker, wins, appended, txn, scan>>

\* The request fails: getJSON never calls the callback.
RequestFails ==
    /\ poll.pc \in {"sent", "answered"}
    /\ poll' = [poll EXCEPT !.pc = "dead"]
    /\ UNCHANGED <<db, created, resp, worker, wins, appended, txn, scan>>

\* The build writes a line while it is Queued or Running.
WriteLine(channel, content) ==
    /\ Build(db, bid).err = Nil
    /\ Build(db, bid).build.Status \in PendingStatus
    /\ AppendOutput(bid, channel, content)

\* The build of the page moves one step forward.
Advance(st) == SetStatus(bid, st)

\* The build of the page is created: the first build of the store.
CreatePageBuild(t, cloneURL, ref, commitSHA) ==
    /\ created = << >>
    /\ CreateBuild(t, cloneURL, ref, commitSHA)

PageLines == { <<Stdout, <<111>> >>, <<CIError, <<101>> >> }

NextPoller ==
    \/ \E q \in WorkerRequests : CreatePageBuild(q[1], q[2], q[3], q[4])
    \/ \E l \in PageLines : WriteLine(l[1], l[2])
    \/ \E st \in {BuildRunning} \cup TerminalStatus : Advance(st)
    \/ PageLoad
    \/ Serve
    \/ Receive
    \/ Timer
    \/ RequestFails

SpecPoller == Init /\ [][NextPoller]_vars

\* ------------------------------------- PendingBuilds(), one view at a time
\* PendingBuilds() reads the pending bucket in one view transaction and then
\* calls Build(id), a view transaction of its own, for each id; CreateBuild
\* and the status transitions of other goroutines commit in between.  snaps
\* collects what PendingBuilds() would give at each instant of the call.
seen(sc, d) ==
    IF sc.pc = "idle" THEN sc ELSE [sc EXCEPT !.snaps = @ \cup {PendingBuilds(d)}]

\* d.pendingBuilds(): the ids, read in one view.
ScanStart ==
    /\ scan.pc = "idle"
    /\ scan' = [pc |-> "hydrate", ids |-> pendingBuilds(db), bs |-> << >>,
                snaps |-> {PendingBuilds(db)}]
    /\ UNCHANGED <<db, created, resp, worker, wins, appended, txn, poll>>

\* One turn of the loop of idsToBuilds: d.Build(id), and the return on error.
Hydrate ==
    /\ scan.pc = "hydrate"
    /\ scan.ids # << >>
    /\ \E r \in {Build(db, Head(scan.ids))} :
         IF r.err # Nil
         THEN /\ resp' = [op |-> "PendingBuilds", args |-> << >>,
                          res |-> [err |-> r.err, builds |-> << >>],
                          snaps |-> scan.snaps]
              /\ scan' = NoScan
         ELSE /\ scan' = [scan EXCEPT !.ids = Tail(@), !.bs = Append(@, r.build)]
              /\ UNCHANGED resp
    /\ UNCHANGED <<db, created, worker, wins, appended, txn, poll>>

\* The loop is over: return bs, nil.
ScanReturn ==
    /\ scan.pc = "hydrate"
    /\ scan.ids = << >>
    /\ resp' = [op |-> "PendingBuilds", args |-> << >>,
                res |-> [err |-> Nil, builds |-> scan.bs], snaps |-> scan.snaps]
    /\ scan' = NoScan
    /\ UNCHANGED <<db, created, worker, wins, appended, txn, poll>>

\* CreateBuild by another goroutine.
Arrive(t, cloneURL, ref, commitSHA) ==
    /\ Len(created) < MaxQueued
    /\ \E r \in {CreateBuildResult(db, t, cloneURL, ref, commitSHA)} :
       /\ db' = r.db
       /\ created' = IF r.err = Nil THEN Append(created, r.build) ELSE created
       /\ resp' = [op |-> "CreateBuild", args |-> <<t, cloneURL, ref, commitSHA>>,
                   err |-> r.err, build |-> r.build]
       /\ scan' = seen(scan, r.db)
    /\ UNCHANGED <<worker, wins, appended, txn, poll>>

\* A status transition by a worker.
Move(id, s) ==
    /\ \E cur \in {Build(db, id)} :
         cur.err = Nil /\ LegalTransition(cur.build.Status, s)
    /\ \E r \in {SetStatusResult(db, id, s)} :
       /\ db' = r.root
       /\ resp' = [op |-> "SetStatus", err |-> r.err]
       /\ scan' = seen(scan, r.root)
    /\ UNCHANGED <<created, worker, wins, appended, txn, poll>>

NextScan ==
    \/ \E q \in WorkerRequests : Arrive(q[1], q[2], q[3], q[4])
    \/ \E id \in 0..MaxID, s \in {BuildRunning} \cup TerminalStatus : Move(id, s)
    \/ ScanStart
    \/ Hydrate
    \/ ScanReturn

SpecScan == Init /\ [][NextScan]_vars

\* -------------------------------------------------------- the properties
InSeq(x, s) == \E i \in 1..Len(s) : s[i] = x
IDsOf(bs)   == [i \in 1..Len(bs) |-> bs[i].ID]
CreatedIDs  == {created[i].ID : i \in 1..Len(created)}
Ascending(ids)  == \A i \in 1..Len(ids), j \in 1..Len(ids) : i < j => ids[i] < ids[j]
Descending(ids) == \A i \in 1..Len(ids), j \in 1..Len(ids) : i < j => ids[i] > ids[j]
Min(a, b) == IF a < b THEN a ELSE b
NotFound  == {"id not exist", "buildBucket does not exist"}

\* The builds created with type t and ref, newest first.
History(t, ref) ==
    LET Same(b) == b.T = t /\ b.Ref = ref IN Reverse(SelectSeq(created, Same))

\* Positions start .. end-1 of h (to the last one when end = -1), counted from 0.
Slice(h, start, end) ==
    SubSeq(h, start + 1, IF end = -1 THEN Len(h) ELSE Min(end, Len(h)))

\* The builds created with commit sha, in creation order.
WithSHA(sha) == LET Same(b) == b.CommitSHA = sha IN SelectSeq(created, Same)

\* The stored records of the created builds that are Queued or Running.
StillPending ==
    LET Pend(b) == b.Status \in PendingStatus
    IN  SelectSeq([i \in 1..Len(created) |-> Build(db, created[i].ID).build], Pend)

JustCreated == resp.op = "CreateBuild" /\ resp.err = Nil

\* C1: right after a successful CreateBuild returning id i, the primary table
\* maps i to the record returned, and the pending index, the ref index of
\* (type, ref) and the sha index of the commit sha each contain i.
C1_AllFourStoresHoldTheID ==
    JustCreated =>
        /\ Build(db, resp.build.ID) = [err |-> Nil, build |-> resp.build]
        /\ InSeq(resp.build.ID, pendingBuilds(db))
        /\ InSeq(resp.build.ID, refBuilds(db, resp.build.T, resp.build.Ref, 0, -1))
        /\ InSeq(resp.build.ID, shaBuilds(db, resp.build.CommitSHA))

\* C2: a build id is in the pending index iff the build's status is Queued or
\* Running; PendingBuilds returns no build with a terminal status and every
\* build that is Queued or Running.
C2_PendingIffQueuedOrRunning ==
    /\ \A id \in CreatedIDs \cup {pendingBuilds(db)[i] : i \in 1..Len(pendingBuilds(db))} :
          InSeq(id, pendingBuilds(db))
              <=> (Build(db, id).err = Nil /\ Build(db, id).build.Status \in PendingStatus)
    /\ PendingBuilds(db).err = Nil
    /\ \A i \in 1..Len(PendingBuilds(db).builds) :
          PendingBuilds(db).builds[i].Status \in PendingStatus
    /\ \A i \in 1..Len(created) :
          Build(db, created[i].ID).build.Status \in PendingStatus
              => InSeq(created[i].ID, IDsOf(PendingBuilds(db).builds))

C2_Witness ==
    \E i \in CreatedIDs, j \in CreatedIDs :
        /\ Build(db, i).build.Status \in TerminalStatus
        /\ ~InSeq(i, pendingBuilds(db))
        /\ Build(db, j).build.Status = BuildRunning
        /\ InSeq(j, pendingBuilds(db))

\* C3: SHABuilds(s) returns exactly the builds created with commit sha s, one
\* per CreateBuild call, in creation order.
C3_SHABuildsIsTheHistory ==
    \A sha \in SHAs : SHABuilds(db, sha) = [err |-> Nil, builds |-> WithSHA(sha)]

\* C4: for every valid (start, end), RefBuilds(type, ref, start, end) returns
\* positions start .. end-1 of the newest-first history of (type, ref), the
\* first start newest builds being skipped.
C4_RefBuildsSkipsStart ==
    \A t \in BuildTypes, ref \in RefNames, start \in 0..MaxStart, end \in -1..MaxEnd :
        validate(start, end) = Nil =>
            RefBuilds(db, t, ref, start, end)
                = [err |-> Nil, builds |-> Slice(History(t, ref), start, end)]

\* C5: for every valid (start, end), RefBuilds returns strictly descending
\* ids, min(end-start, available) of them when end >= 0 and available - start
\* of them when end = -1 (start within the history).
C5_RefBuildsOrderAndLength ==
    \A t \in BuildTypes, ref \in RefNames, start \in 0..MaxStart, end \in -1..MaxEnd :
        validate(start, end) = Nil =>
            /\ RefBuilds(db, t, ref, start, end).err = Nil
            /\ Descending(IDsOf(RefBuilds(db, t, ref, start, end).builds))
            /\ end >= 0 =>
                   Len(RefBuilds(db, t, ref, start, end).builds)
                       = Min(end - start, Len(History(t, ref)))
            /\ (end = -1 /\ start <= Len(History(t, ref))) =>
                   Len(RefBuilds(db, t, ref, start, end).builds)
                       = Len(History(t, ref)) - start

\* C6: Build(id) of every id CreateBuild returned succeeds with a record equal
\* to the one CreateBuild returned, also after later CreateBuild calls.
C6_RoundTrip ==
    \A i \in 1..Len(created) :
        Build(db, created[i].ID) = [err |-> Nil, build |-> created[i]]

C6_Witness ==
    /\ Len(created) >= 2
    /\ created[1].CloneURL = Empty
    /\ created[1].T = PullRequest
    /\ created[2].CloneURL = HostURL
    /\ resp.op = "Build" /\ resp.args = <<created[1].ID>> /\ resp.res.err = Nil

\* C7: the ids successful CreateBuild calls return are strictly increasing in
\* call order, so none is returned twice, also when earlier builds have left
\* the pending index.
C7_StrictlyIncreasingIDs == Ascending(IDsOf(created))

C7_Witness ==
    /\ JustCreated
    /\ Len(created) >= 2
    /\ created[1].T # created[Len(created)].T
    /\ Build(db, created[1].ID).build.Status \in TerminalStatus
    /\ ~InSeq(created[1].ID, pendingBuilds(db))

\* C8: on a fresh store the first CreateBuild(Push, url, "main", sha) returns
\* ID 1 with status Queued, the second one with ref "main" returns ID 2, and
\* RefBuilds(Push, "main", 0, -1) is then [build 2, build 1].
C8_EndToEnd ==
    ( /\ Len(created) = 2
      /\ created[1] = [ZeroBuild EXCEPT !.ID = created[1].ID, !.CloneURL = HostURL,
                                        !.Ref = Main, !.CommitSHA = Abc123]
      /\ created[2].T = Push /\ created[2].Ref = Main )
    => /\ created[1].ID = 1 /\ created[1].Status = BuildQueued
       /\ created[2].ID = 2
       /\ RefBuilds(db, Push, Main, 0, -1)
              = [err |-> Nil, builds |-> <<created[2], created[1]>>]

\* C9: right after a successful CreateBuild the new build is in
\* PendingBuilds(); PendingBuilds() returns the pending builds in ascending id
\* order, which is their creation order, and returns nothing and no error
\* when nothing was ever created.
C9_PendingBuildsOrder ==
    /\ JustCreated => InSeq(resp.build, PendingBuilds(db).builds)
    /\ PendingBuilds(db).err = Nil
    /\ Ascending(IDsOf(PendingBuilds(db).builds))
    /\ PendingBuilds(db).builds = StillPending
    /\ created = << >> => PendingBuilds(db).builds = << >>
    /\ resp.op = "PendingBuilds" => resp.res = [err |-> Nil, builds |-> StillPending]

C9_Witness ==
    /\ resp.op = "PendingBuilds"
    /\ Len(resp.res.builds) >= 2
    /\ Len(created) > Len(resp.res.builds)

\* C10: Build(id) fails with a not-found error for every id no successful
\* CreateBuild returned, and succeeds for every id one returned.
C10_BuildNotFound ==
    \A id \in 0..MaxID :
        IF id \in CreatedIDs THEN Build(db, id).err = Nil
        ELSE Build(db, id).err \in NotFound

\* C11: a CreateBuild call that returns an error leaves the store exactly as it
\* was (no record, no pending marker, no ref or sha entry, no consumed sequence
\* number) and returns the zero Build, so the next successful call returns the
\* ID it would have returned without the failed one.
C11_FailedCreateLeavesStore ==
    [][(resp'.op = "CreateBuild" /\ resp'.err # Nil) =>
          /\ db' = db
          /\ created' = created
          /\ resp'.build = ZeroBuild
          /\ \A q \in Requests :
                CreateBuildResult(db', q[1], q[2], q[3], q[4]).build
                    = CreateBuildResult(db, q[1], q[2], q[3], q[4]).build]_vars

\* A failed call on a store holding builds whose function had written to the
\* transaction before the failing step.
C11_Witness ==
    /\ resp.op = "CreateBuild" /\ resp.err # Nil
    /\ Len(created) >= 1
    /\ CreateBuildTxn(NewTx(db), resp.args[1], resp.args[2], resp.args[3],
                      resp.args[4]).t.root # db

\* The errors validate returns.
ValidationErrors ==
    {"invalid argument start", "invalid argument end", "invalid argument start, end"}

Malformed(start, end) == start < 0 \/ end < -1 \/ (end >= 0 /\ start > end)

\* C12: RefBuilds(type, ref, start, end) fails with a validation error whenever
\* start < 0, or end < -1, or end >= 0 and start > end, whatever the store
\* holds (the answer is the one an empty store gives: the store is not read),
\* and well-formed arguments never get a validation error.
C12_MalformedRangeRejected ==
    /\ \A t \in BuildTypes, ref \in RefNames :
         \A start \in -1..MaxStart, end \in -2..MaxEnd :
            Malformed(start, end) =>
               /\ RefBuilds(db, t, ref, start, end).err \in ValidationErrors
               /\ RefBuilds(db, t, ref, start, end).builds = << >>
               /\ RefBuilds(db, t, ref, start, end)
                      = RefBuilds(EmptyBucket, t, ref, start, end)
    /\ resp.op = "RefBuilds" =>
          (Malformed(resp.args[3], resp.args[4]) <=> resp.res.err \in ValidationErrors)

\* RefBuilds called with start > end >= 0 on a ref that has builds.
C12_Witness ==
    /\ resp.op = "RefBuilds"
    /\ resp.args[4] >= 0 /\ resp.args[3] > resp.args[4]
    /\ resp.res.err \in ValidationErrors
    /\ Len(History(resp.args[1], resp.args[2])) >= 2

\* C13: RefBuilds(type, ref, k, k) returns an empty result and no error for
\* every k >= 0, whatever the store holds and whether or not the ref exists.
C13_EmptyRange ==
    /\ \A t \in BuildTypes, ref \in RefNames, k \in 0..MaxStart :
         RefBuilds(db, t, ref, k, k) = [err |-> Nil, builds |-> << >>]
    /\ (resp.op = "RefBuilds" /\ resp.args[3] = resp.args[4] /\ resp.args[3] >= 0)
          => resp.res = [err |-> Nil, builds |-> << >>]

\* RefBuilds(type, ref, 1, 1) answered on a ref with two builds or more.
C13_Witness ==
    /\ resp.op = "RefBuilds"
    /\ resp.args[3] = 1 /\ resp.args[4] = 1
    /\ resp.res = [err |-> Nil, builds |-> << >>]
    /\ Len(History(resp.args[1], resp.args[2])) >= 2

\* The workers executing build id.
Executing(id) == {w \in Workers : worker[w].pc = "execute" /\ worker[w].id = id}

\* C14: a worker executes a build only after winning the Queued -> Running
\* transition for it, and at most one worker ever wins that transition for a
\* build: no build is executed by two workers, nor twice, even when several
\* workers found the same build in PendingBuilds().
C14_OneWorkerPerBuild ==
    /\ \A id \in DOMAIN wins : wins[id] <= 1
    /\ \A id \in 0..MaxID : Cardinality(Executing(id)) <= 1
    /\ \A w \in Workers :
         worker[w].pc = "execute" =>
            /\ Wins(worker[w].id) = 1
            /\ Build(db, worker[w].id).build.Status = BuildRunning

\* Two workers took the same build; one won the claim and executes it, the
\* other has just lost.
C14_Witness ==
    /\ resp.op = "Claim" /\ resp.err # Nil
    /\ worker[resp.args[1]] = Idle
    /\ \E w \in Workers \ {resp.args[1]} : w \in Executing(resp.args[2])

\* The stored status of build id in the store d.
StatusIn(d, id) == Build(d, id).build.Status

\* One step of a build: its status before and after, and whether it was and is
\* in the pending index.
ForwardStep(old, new, wasPending, isPending) ==
    /\ new = old \/ LegalTransition(old, new)
    /\ old \in TerminalStatus => new = old
    /\ isPending <=> new \in PendingStatus
    /\ new = old => (isPending <=> wasPending)

\* C15: a build's status only moves forward along Queued -> Running ->
\* {Success | Error | Failed}: no step moves it backward or from Queued to a
\* terminal status, a terminal status never changes again, and the step that
\* makes the status terminal takes the build out of the pending index (a step
\* that does not, leaves its pending membership alone).
C15_StatusForwardOnly ==
    [][\/ db' = db
       \/ \A id \in CreatedIDs :
             ForwardStep(StatusIn(db, id), StatusIn(db', id),
                         InSeq(id, pendingBuilds(db)), InSeq(id, pendingBuilds(db')))]_vars

\* A build that reached a terminal status and left the pending index was asked
\* to go back to Queued or Running, and the request was refused.
C15_Witness ==
    /\ resp.op = "Transition"
    /\ resp.args[1] \in CreatedIDs
    /\ resp.args[2] \in PendingStatus
    /\ resp.err = "invalid transition"
    /\ StatusIn(db, resp.args[1]) \in TerminalStatus
    /\ ~InSeq(resp.args[1], pendingBuilds(db))
    /\ \E other \in CreatedIDs : StatusIn(db, other) = BuildQueued

\* The lines appended to build id, numbered from 0 in append order.
Numbered(id) ==
    [i \in 1..Len(Appended(id)) |->
        [LineID |-> i - 1, Channel |-> Appended(id)[i][1],
         Content |-> Appended(id)[i][2]]]

\* C16: after any interleaving of AppendOutput calls on any channels and
\* builds, a build's LineIDs are exactly 0 .. n-1, every line is the one that
\* was appended at that position (a written line never changes), and
\* ReadOutputs(id, 0, -1) returns the lines in ascending LineID order, which is
\* append order.
C16_LineIDsContiguous ==
    \A id \in LoggedBuilds : ReadOutputs(db, id, 0, -1) = Numbered(id)

\* Two builds written in turn, one of them on two channels.
C16_Witness ==
    /\ resp.op = "AppendOutput"
    /\ \E id \in LoggedBuilds, other \in LoggedBuilds :
         /\ other # id
         /\ Len(Appended(id)) = 2
         /\ Appended(id)[1][1] # Appended(id)[2][1]
         /\ Len(Appended(other)) = 1
         /\ resp.args[1] = id

\* The transaction function has failed: its tx remembers an error.
Failed == txn.open /\ txn.t.err # Nil

\* C17 as claimed: once an operation of a transaction has failed, the first
\* error stays, every later call on the tx or on its buckets changes nothing
\* and does not panic, and update/view return the remembered error whatever
\* the function returns.
C17_FailedTxIsInert ==
    [][Failed =>
          IF txn'.open THEN txn'.t = txn.t
          ELSE db' = db /\ resp'.err = txn.t.err]_vars

\* C17, amended: the same for calls on the tx and on buckets that are not nil.
\* Bucket returns a nil bucket once the transaction has failed, and a call on
\* a nil bucket, and no other call, panics; the store is then left as it was.
C17_FailedTxIsInertUnlessNil ==
    [][/\ Failed =>
            IF txn'.open THEN txn'.t = txn.t
            ELSE /\ db' = db
                 /\ resp'.err = txn.t.err \/ resp'.err = Panic
       /\ (txn.open /\ ~txn'.open /\ resp'.err = Panic) =>
            /\ txn.held /\ txn.b.nil /\ resp'.last[1] = "bucket"
            /\ db' = db
       /\ (txn.open /\ txn'.open /\ txn.held /\ txn.n # txn'.n
             /\ resp'.last[1] = "bucket") => ~txn.b.nil]_vars

\* update returned the error remembered by a tx on which two calls were made
\* after the failure, the function itself returning another error.
C17_Witness ==
    /\ resp.op = "update"
    /\ resp.last = <<"return", OwnError>>
    /\ resp.late >= 2
    /\ resp.err \notin {Nil, OwnError, Panic}

\* The panel shows the first lines of the build, each once and in LineID order.
ShownIsPrefix ==
    /\ Len(poll.shown) <= Len(Numbered(bid))
    /\ \A i \in 1..Len(poll.shown) :
          poll.shown[i] = [class |-> panelClass(Numbered(bid)[i].Channel),
                           href |-> Numbered(bid)[i].LineID,
                           content |-> Numbered(bid)[i].Content]

Polling == {"queued", "running"}

\* The items the callback adds to the panel for the answer data.
NewItems(n, outs) ==
    [i \in 1..Len(outs) |-> [class |-> panelClass(outs[i].Channel),
                             href |-> n + i - 1, content |-> outs[i].Content]]

\* C18: the output poller sends each request with start equal to the number of
\* lines it has displayed (0 at first) and end = -1, displays every line of an
\* answer once and in the order received, asks again if and only if the
\* answer's status is queued or running and never after a terminal one; with
\* answers that hold all lines from start on and no line appended to a
\* terminal build, it has displayed every line of the build once, in LineID
\* order, when it stops on a terminal answer.
C18_PollerShowsEveryLineOnce ==
    /\ [](/\ poll.lineId = Len(poll.shown)
          /\ poll.pc \in {"sent", "answered"} =>
                poll.req = [id |-> bid, start |-> Len(poll.shown), end |-> -1]
          /\ ShownIsPrefix
          /\ poll.pc = "stopped" =>
                /\ Len(poll.shown) = Len(Numbered(bid))
                /\ Build(db, bid).build.Status \in TerminalStatus)
    /\ [][/\ (poll.pc = "answered" /\ poll'.pc \notin {"answered", "dead"}) =>
               /\ poll'.shown = poll.shown \o NewItems(Len(poll.shown), poll.data.Outputs)
               /\ poll'.pc = IF poll.data.Status \in Polling THEN "timer" ELSE "stopped"
          /\ poll'.pc = "sent" => poll.pc \in {"off", "timer", "sent"}
          /\ poll.pc = "stopped" => poll' = poll]_vars

\* The poller, one line shown, asked again from line 1 and is being answered
\* with the lines written since and a terminal status.
C18_Witness ==
    /\ poll.pc = "answered"
    /\ poll.req.start = 1
    /\ Len(poll.shown) = 1
    /\ Len(poll.data.Outputs) = 2
    /\ poll.data.Outputs[1].Channel # poll.data.Outputs[2].Channel
    /\ poll.data.Status \notin Polling

\* The primary table: the build bucket, or an empty one before the first build.
Primary == IF HasBucket(db, buildBucket) THEN GetBucket(db, <<buildBucket>>)
           ELSE EmptyBucket

\* The entry under key k is a serialized Build whose ID is k.
IsRecordOf(e, k) ==
    /\ ~e.isBucket
    /\ GobDecode(e.val).err = Nil
    /\ GobDecode(e.val).build.ID = btoi(k)

\* C19: every key of the primary build table maps to a serialized Build whose
\* ID is that key; each successful CreateBuild has added exactly one entry and
\* consumed exactly one value of the primary sequence, and no index entry is
\* in the primary table.
C19_PrimaryHoldsOnlyRecords ==
    /\ \A k \in DOMAIN Primary.kv : Len(k) = 8 /\ IsRecordOf(Primary.kv[k], k)
    /\ Cardinality(DOMAIN Primary.kv) = Len(created)
    /\ Primary.seq = Len(created)

\* C20: PendingBuilds() run beside CreateBuild and status transitions returns
\* what one instant of the call held: the pending index of that instant with
\* the records as they were then, so no build with a terminal status, and it
\* does not fail.
C20_PendingBuildsSnapshot ==
    (resp.op = "PendingBuilds" /\ "snaps" \in DOMAIN resp) =>
        /\ resp.res.err = Nil
        /\ resp.res \in resp.snaps
        /\ \A i \in 1..Len(resp.res.builds) :
              resp.res.builds[i].Status \in PendingStatus

====
